---- MODULE Spec2Model ----
(***************************************************************************)
(* rudis: an in-memory key-value store with TTL eviction (src/src/db.rs)   *)
(* and the server's connection lifecycle (src/src/server.rs).              *)
(*                                                                         *)
(* Three state machines share this module:                                 *)
(*   SpecDb      the Store, its callers and the eviction task              *)
(*   SpecServer  the Listener, the Handlers and the shutdown coordinator   *)
(*   SpecCmd     one connection: frames, Command::from_frame and apply     *)
(*               (src/src/cmd/mod.rs), against the Store                   *)
(* Each leaves the variables it does not use at their initial values.      *)
(***************************************************************************)
EXTENDS Integers, FiniteSets, Sequences, TLC

(***************************************************************************)
(* Bounds of the model.                                                    *)
(***************************************************************************)
\* Instants are natural numbers; the clock stops at MaxTime.
MaxTime == 2
\* Db::set is called at most MaxId times (next_id stays below 2^64).
MaxId == 2

\* The connection ceiling; the program's MAX_CONNECTIONS is 256 (server.rs:38).
MAX_CONNECTIONS == 2
\* Connections accepted over the server's life.
MaxConns == 3
\* Listener::accept gives up once backoff > 32.
BackoffLimit == 32

Keys == {"k1", "k2"}
Values == {"v1", "v2"}
\* The concurrent callers of Db::get / Db::set (handles cloned from the guard).
Clients == {"c1", "c2"}

\* Option::None, for Option<Instant> and Option<Duration> ...
None == -1
\* ... and for Option<Bytes>, what Db::get returns for a missing key.
Absent == "absent"
\* The Durations a caller passes as ttl, in clock ticks.
Ttls == {0, 1, 2}
OptTtls == Ttls \cup {None}

VARIABLES
    \* ---- State (db.rs:34-44), guarded by Shared::state
    entries,        \* HashMap<String, Entry>: function from a set of keys
    expirations,    \* BTreeMap<(Instant, u64), String>: function from pairs
    next_id,        \* u64
    shutdown,       \* bool
    \* ---- Shared::background_task (tokio Notify) and the eviction task
    permit,         \* Notify holds a stored permit
    notified,       \* the task's registered waiter has been notified
    tpc,            \* position of purge_expired_tasks
    twhen,          \* the deadline purge_expired_keys returned to it
    \* ---- callers
    cpc,            \* per caller: "idle", or "notify" (Db::set after drop(state))
    gpc,            \* the DbDropGuard: "held", "notify", "dropped"
    \* ---- time and history
    now,            \* tokio::time::Instant::now()
    lastSet,        \* per key: the last Db::set on it (history)
    retired,        \* records of entries overwritten before they expired (history)
    \* ---- server.rs: Listener, Handlers, server::run
    permits,        \* limit_connections: available permits of the Semaphore
    lpc,            \* position of Listener::run
    backoff,        \* Listener::accept's local `backoff`, in seconds (1 outside accept)
    hpc,            \* per connection: position of its Handler
    hexit,          \* per connection: the Result Handler::run returned
    hshut,          \* per connection: Shutdown::shutdown of its Handler
    rpc,            \* position of server::run
    sig,            \* the `shutdown` future passed to server::run is ready
    notify_shutdown,        \* the broadcast::Sender is alive (not dropped)
    shutdown_complete_tx,   \* server::run's own mpsc::Sender is alive
    trigger,        \* which branch of run's select! completed (history)
    lpcAtTrigger,   \* where the Listener was at that moment (history)
    midAtTrigger,   \* the Handlers mid-command at that moment (history)
    answered,       \* of those, the ones whose command has finished (history)
    \* ---- one connection seen at the level of frames and commands
    conn            \* its Handler's position, request, reply and result

dbvars == <<entries, expirations, next_id, shutdown, permit, notified, tpc,
            twhen, cpc, gpc, now, lastSet, retired>>

srvvars == <<permits, lpc, backoff, hpc, hexit, hshut, rpc, sig, notify_shutdown,
             shutdown_complete_tx, trigger, lpcAtTrigger, midAtTrigger, answered>>

vars == <<dbvars, srvvars, conn>>

NoSet == [id |-> None, data |-> Absent, expired_at |-> None]

(***************************************************************************)
(* Pure helpers over the State aggregate.                                  *)
(***************************************************************************)
\* Ord for (Instant, u64): the BTreeMap's key order.
KeyLess(a, b) == a[1] < b[1] \/ (a[1] = b[1] /\ a[2] < b[2])

\* expirations.iter().next() / expirations.keys().next(): the least key.
FirstKey(exp) == CHOOSE r \in DOMAIN exp : \A q \in DOMAIN exp : q = r \/ KeyLess(r, q)

\* State::next_expiration
NextExpirationOf(exp) == IF DOMAIN exp = {} THEN None ELSE FirstKey(exp)[1]

next_expiration == NextExpirationOf(expirations)

MapInsert(f, k, v) == [x \in DOMAIN f \cup {k} |-> IF x = k THEN v ELSE f[x]]
MapRemove(f, k) == [x \in DOMAIN f \ {k} |-> f[x]]

\* Db::get: the value stored under key, no expiration check.
GetChecked(key) ==
    IF key \in DOMAIN entries
       /\ (entries[key].expired_at = None \/ entries[key].expired_at > now)
    THEN entries[key].data
    ELSE Absent
Get(key) == IF key \in DOMAIN entries THEN entries[key].data ELSE Absent

\* The test of the purge loop: the first record is not yet due.
NotYetDueRev(when, t) == when < t
NotYetDue(when, t) == when > t

\* The while-let loop of purge_expired_keys, on (entries, expirations).
PurgeLoopKeepEntry(ent, exp, t) ==
    IF DOMAIN exp = {}
    THEN [entries |-> ent, expirations |-> exp, ret |-> None]
    ELSE LET r == FirstKey(exp) IN
         IF NotYetDue(r[1], t)
         THEN [entries |-> ent, expirations |-> exp, ret |-> r[1]]
         ELSE [entries |-> ent, expirations |-> MapRemove(exp, r),
               ret |-> NextExpirationOf(MapRemove(exp, r))]
RECURSIVE PurgeLoop(_, _, _)
PurgeLoop(ent, exp, t) ==
    IF DOMAIN exp = {}
    THEN [entries |-> ent, expirations |-> exp, ret |-> None]
    ELSE LET r == FirstKey(exp) IN
         IF NotYetDue(r[1], t)
         THEN [entries |-> ent, expirations |-> exp, ret |-> r[1]]
         ELSE PurgeLoop(MapRemove(ent, exp[r]), MapRemove(exp, r), t)

\* Shared::purge_expired_keys
PurgeExpiredKeys ==
    IF shutdown
    THEN [entries |-> entries, expirations |-> expirations, ret |-> None]
    ELSE PurgeLoop(entries, expirations, now)

\* Db::set, `notify`: the new expiration is the next to evict.
SetNotifyFlagNever(expire, when) == FALSE
SetNotifyFlagNoneFalse(expire, when) ==
    /\ expire # None
    /\ (next_expiration # None /\ next_expiration > when)
SetNotifyFlagOrEqual(expire, when) ==
    /\ expire # None
    /\ (next_expiration = None \/ next_expiration >= when)
SetNotifyFlag(expire, when) ==
    /\ expire # None
    /\ (next_expiration = None \/ next_expiration > when)

\* Db::set, clearing the previous entry's expiration record.
ClearPrevKeep(exp, key, id) == exp
ClearPrevNewId(exp, key, id) ==
    IF key \in DOMAIN entries /\ entries[key].expired_at # None
    THEN MapRemove(exp, <<entries[key].expired_at, id>>)
    ELSE exp
ClearPrev(exp, key, id) ==
    IF key \in DOMAIN entries /\ entries[key].expired_at # None
    THEN MapRemove(exp, <<entries[key].expired_at, entries[key].id>>)
    ELSE exp

\* Notify::notify_one on background_task: wake the registered waiter, or
\* store one permit when none is waiting.
NotifyOne ==
    IF tpc = "wait" /\ ~notified
    THEN notified' = TRUE /\ UNCHANGED permit
    ELSE permit' = TRUE /\ UNCHANGED notified

(***************************************************************************)
(* Init: Db::new                                                           *)
(***************************************************************************)
InitDb ==
    /\ entries = << >>
    /\ expirations = << >>
    /\ next_id = 0
    /\ shutdown = FALSE
    /\ permit = FALSE
    /\ notified = FALSE
    /\ tpc = "check"
    /\ twhen = None
    /\ cpc = [c \in Clients |-> "idle"]
    /\ gpc = "held"
    /\ now = 0
    /\ lastSet = [k \in Keys |-> NoSet]
    /\ retired = {}

(***************************************************************************)
(* Callers                                                                 *)
(***************************************************************************)
\* Db::get.  Callers are Handlers, and server::run drops the guard only after
\* every Handler is gone, so no call starts once the guard is being dropped.
DbGet(c, key) ==
    /\ cpc[c] = "idle"
    /\ gpc = "held"
    /\ UNCHANGED <<entries, expirations, next_id, shutdown, permit, notified,
                   tpc, twhen, cpc, gpc, now, lastSet, retired, srvvars, conn>>

\* Db::set up to drop(state): everything done under the lock, on the Store.
SetLocked(c, key, value, expire) ==
    /\ cpc[c] = "idle"
    /\ gpc = "held"
    /\ next_id < MaxId
    /\ LET id == next_id
           when == IF expire = None THEN None ELSE now + expire
           tracked == IF expire = None
                      THEN expirations
                      ELSE MapInsert(expirations, <<when, id>>, key)
       IN /\ next_id' = id + 1
          /\ entries' = MapInsert(entries, key,
                            [id |-> id, data |-> value, expired_at |-> when])
          /\ expirations' = ClearPrev(tracked, key, id)
          /\ cpc' = [cpc EXCEPT ![c] =
                        IF SetNotifyFlag(expire, when) THEN "notify" ELSE "idle"]
          /\ lastSet' = [lastSet EXCEPT ![key] =
                        [id |-> id, data |-> value, expired_at |-> when]]
          /\ retired' = IF /\ key \in DOMAIN entries
                           /\ entries[key].expired_at # None
                           /\ now < entries[key].expired_at
                        THEN retired \cup {[key |-> key, id |-> entries[key].id,
                                            when |-> entries[key].expired_at]}
                        ELSE retired
    /\ UNCHANGED <<shutdown, permit, notified, tpc, twhen, gpc, now>>

\* Db::set called by a caller of the Store.
DbSet(c, key, value, expire) ==
    /\ SetLocked(c, key, value, expire)
    /\ UNCHANGED <<srvvars, conn>>

\* Db::set after drop(state): background_task.notify_one()
SetNotify(c) ==
    /\ cpc[c] = "notify"
    /\ NotifyOne
    /\ cpc' = [cpc EXCEPT ![c] = "idle"]
    /\ UNCHANGED <<entries, expirations, next_id, shutdown, tpc, twhen, gpc,
                   now, lastSet, retired>>

DbSetNotify(c) ==
    /\ SetNotify(c)
    /\ UNCHANGED <<srvvars, conn>>

\* Drop for DbDropGuard -> Db::shutdown_purge_task, under the lock
ShutdownPurgeTask ==
    /\ gpc = "held"
    /\ shutdown' = TRUE
    /\ gpc' = "notify"
    /\ UNCHANGED <<entries, expirations, next_id, permit, notified, tpc, twhen,
                   cpc, now, lastSet, retired, srvvars, conn>>

\* Db::shutdown_purge_task after drop(state): notify_one()
ShutdownNotifySkip ==
    /\ gpc = "notify"
    /\ gpc' = "dropped"
    /\ UNCHANGED <<entries, expirations, next_id, shutdown, permit, notified,
                   tpc, twhen, cpc, now, lastSet, retired, srvvars, conn>>
ShutdownNotify ==
    /\ gpc = "notify"
    /\ NotifyOne
    /\ gpc' = "dropped"
    /\ UNCHANGED <<entries, expirations, next_id, shutdown, tpc, twhen, cpc,
                   now, lastSet, retired, srvvars, conn>>

(***************************************************************************)
(* The eviction task: purge_expired_tasks                                  *)
(***************************************************************************)
\* while !shared.is_shutdown()
TaskCheck ==
    /\ tpc = "check"
    /\ tpc' = IF shutdown THEN "done" ELSE "purge"
    /\ UNCHANGED <<entries, expirations, next_id, shutdown, permit, notified,
                   twhen, cpc, gpc, now, lastSet, retired, srvvars, conn>>

\* shared.purge_expired_keys()
TaskPurge ==
    /\ tpc = "purge"
    /\ LET p == PurgeExpiredKeys
       IN /\ entries' = p.entries
          /\ expirations' = p.expirations
          /\ twhen' = p.ret
    /\ tpc' = "await"
    /\ UNCHANGED <<next_id, shutdown, permit, notified, cpc, gpc,
                   now, lastSet, retired, srvvars, conn>>

TimerReady == twhen # None /\ now >= twhen

\* First poll of select!{sleep_until(when), notified()} or of notified().await
TaskAwait ==
    /\ tpc = "await"
    /\ \/ /\ permit
          /\ permit' = FALSE
          /\ tpc' = "check"
          /\ UNCHANGED notified
       \/ /\ TimerReady
          /\ tpc' = "check"
          /\ UNCHANGED <<permit, notified>>
       \/ /\ ~permit
          /\ ~TimerReady
          /\ tpc' = "wait"
          /\ notified' = FALSE
          /\ UNCHANGED permit
    /\ UNCHANGED <<entries, expirations, next_id, shutdown, twhen, cpc, gpc,
                   now, lastSet, retired, srvvars, conn>>

\* The wait completes: the waiter was notified, or the deadline passed (a
\* notification the dropped Notified future had received goes back to Notify).
TaskWake ==
    /\ tpc = "wait"
    /\ \/ /\ notified
          /\ notified' = FALSE
          /\ UNCHANGED permit
       \/ /\ TimerReady
          /\ permit' = (permit \/ notified)
          /\ notified' = FALSE
    /\ tpc' = "check"
    /\ UNCHANGED <<entries, expirations, next_id, shutdown, twhen, cpc, gpc,
                   now, lastSet, retired, srvvars, conn>>

\* Time passes.
Tick ==
    /\ now < MaxTime
    /\ now' = now + 1
    /\ UNCHANGED <<entries, expirations, next_id, shutdown, permit, notified,
                   tpc, twhen, cpc, gpc, lastSet, retired, srvvars, conn>>

TaskStep == TaskCheck \/ TaskPurge \/ TaskAwait \/ TaskWake

NextDb ==
    \/ \E c \in Clients, k \in Keys : DbGet(c, k)
    \/ \E c \in Clients, k \in Keys, v \in Values, e \in OptTtls : DbSet(c, k, v, e)
    \/ \E c \in Clients : DbSetNotify(c)
    \/ ShutdownPurgeTask
    \/ ShutdownNotify
    \/ TaskCheck
    \/ TaskPurge
    \/ TaskAwait
    \/ TaskWake
    \/ Tick


(***************************************************************************)
(* The server: server.rs                                                   *)
(***************************************************************************)
Conns == 1..MaxConns

\* A Handler value exists and its Drop has not started.
Live(h) == hpc[h] \in {"select", "apply"}
LiveHandlers == {h \in Conns : Live(h)}

\* The Handlers holding a clone of shutdown_complete_tx (`_shutdown_complete`,
\* cloned in Listener::run, dropped last among the Handler's fields).
SenderHoldersNone == {}
SenderHolders == {h \in Conns : Live(h) \/ hpc[h] = "dropping"}

\* The next connection to be accepted.
Spawned == {h \in Conns : hpc[h] # "none"}
NextConn == Cardinality(Spawned) + 1

\* The Listener::run future is still polled by run's select!.
ListenerRunning == lpc \in {"acquire", "accept", "backoff"}
\* The Listener took a permit (acquire().forget()) and has spawned no Handler for it.
ListenerHolds == IF lpc \in {"accept", "backoff"} THEN 1 ELSE 0

InitServer ==
    /\ permits = MAX_CONNECTIONS
    /\ lpc = "acquire"
    /\ backoff = 1
    /\ hpc = [h \in Conns |-> "none"]
    /\ hexit = [h \in Conns |-> "none"]
    /\ hshut = [h \in Conns |-> FALSE]
    /\ rpc = "select"
    /\ sig = FALSE
    /\ notify_shutdown = TRUE
    /\ shutdown_complete_tx = TRUE
    /\ trigger = "none"
    /\ lpcAtTrigger = "none"
    /\ midAtTrigger = {}
    /\ answered = {}

\* ---- Listener::run
\* self.limit_connections.acquire().await.unwrap().forget()
ListenerAcquireKeep ==
    /\ lpc = "acquire"
    /\ permits > 0
    /\ lpc' = "accept"
    /\ backoff' = 1
    /\ UNCHANGED <<permits, hpc, hexit, hshut, rpc, sig, notify_shutdown,
                   shutdown_complete_tx, trigger, lpcAtTrigger, midAtTrigger,
                   answered, dbvars, conn>>
ListenerAcquire ==
    /\ lpc = "acquire"
    /\ permits > 0
    /\ permits' = permits - 1
    /\ lpc' = "accept"
    /\ backoff' = 1
    /\ UNCHANGED <<hpc, hexit, hshut, rpc, sig, notify_shutdown,
                   shutdown_complete_tx, trigger, lpcAtTrigger, midAtTrigger,
                   answered, dbvars, conn>>

\* self.accept() returns a socket: build the Handler, tokio::spawn it, loop.
ListenerAcceptOk ==
    /\ lpc = "accept"
    /\ NextConn \in Conns
    /\ hpc' = [hpc EXCEPT ![NextConn] = "select"]
    /\ lpc' = "acquire"
    /\ backoff' = 1
    /\ UNCHANGED <<permits, hexit, hshut, rpc, sig, notify_shutdown,
                   shutdown_complete_tx, trigger, lpcAtTrigger, midAtTrigger,
                   answered, dbvars, conn>>

\* self.listener.accept() fails: give up once backoff > 32, else sleep.
ListenerAcceptErrEarly ==
    /\ lpc = "accept"
    /\ lpc' = IF backoff >= BackoffLimit THEN "failed" ELSE "backoff"
    /\ backoff' = IF backoff >= BackoffLimit THEN 1 ELSE backoff
    /\ UNCHANGED <<permits, hpc, hexit, hshut, rpc, sig, notify_shutdown,
                   shutdown_complete_tx, trigger, lpcAtTrigger, midAtTrigger,
                   answered, dbvars, conn>>
ListenerAcceptErr ==
    /\ lpc = "accept"
    /\ lpc' = IF backoff > BackoffLimit THEN "failed" ELSE "backoff"
    /\ backoff' = IF backoff > BackoffLimit THEN 1 ELSE backoff
    /\ UNCHANGED <<permits, hpc, hexit, hshut, rpc, sig, notify_shutdown,
                   shutdown_complete_tx, trigger, lpcAtTrigger, midAtTrigger,
                   answered, dbvars, conn>>

\* time::sleep(Duration::from_secs(backoff)) is over; backoff *= 2
ListenerBackoffDone ==
    /\ lpc = "backoff"
    /\ backoff' = backoff * 2
    /\ lpc' = "accept"
    /\ UNCHANGED <<permits, hpc, hexit, hshut, rpc, sig, notify_shutdown,
                   shutdown_complete_tx, trigger, lpcAtTrigger, midAtTrigger,
                   answered, dbvars, conn>>

\* ---- Handler::run
\* Shutdown::is_shutdown
IsShutdown(h) == hshut[h]
\* Shutdown::recv is ready: the broadcast channel is closed (nothing is ever sent).
ShutdownRecvReady == ~notify_shutdown

\* Handler::run returns `result` and the spawned task ends there, dropping the
\* Handler: Drop::drop, add_permits(1).  No await lies between the return and
\* the drop, and nothing but the task itself reads the result.
HandlerDropOkOnly(h, result) ==
    /\ hpc' = [hpc EXCEPT ![h] = "dropping"]
    /\ hexit' = [hexit EXCEPT ![h] = result]
    /\ permits' = IF result = "ok" THEN permits + 1 ELSE permits
HandlerDrop(h, result) ==
    /\ hpc' = [hpc EXCEPT ![h] = "dropping"]
    /\ hexit' = [hexit EXCEPT ![h] = result]
    /\ permits' = permits + 1

\* select! takes the read_frame branch: a frame, end of stream (return Ok(())),
\* or an I/O error (`?`).
HandlerRead(h) ==
    /\ hpc[h] = "select"
    /\ ~IsShutdown(h)
    /\ \E res \in {"frame", "eof", "io"} :
          IF res = "frame"
          THEN /\ hpc' = [hpc EXCEPT ![h] = "apply"]
               /\ UNCHANGED <<hexit, permits>>
          ELSE HandlerDrop(h, IF res = "eof" THEN "ok" ELSE "err")
    /\ UNCHANGED <<lpc, backoff, hshut, rpc, sig, notify_shutdown,
                   shutdown_complete_tx, trigger, lpcAtTrigger, midAtTrigger,
                   answered, dbvars, conn>>

\* select! takes the shutdown.recv() branch: return Ok(())
HandlerShutdownErr(h) ==
    /\ hpc[h] = "select"
    /\ ~IsShutdown(h)
    /\ ShutdownRecvReady
    /\ hshut' = [hshut EXCEPT ![h] = TRUE]
    /\ HandlerDrop(h, "err")
    /\ UNCHANGED <<lpc, backoff, rpc, sig, notify_shutdown,
                   shutdown_complete_tx, trigger, lpcAtTrigger, midAtTrigger,
                   answered, dbvars, conn>>
HandlerShutdown(h) ==
    /\ hpc[h] = "select"
    /\ ~IsShutdown(h)
    /\ ShutdownRecvReady
    /\ hshut' = [hshut EXCEPT ![h] = TRUE]
    /\ HandlerDrop(h, "ok")
    /\ UNCHANGED <<lpc, backoff, rpc, sig, notify_shutdown,
                   shutdown_complete_tx, trigger, lpcAtTrigger, midAtTrigger,
                   answered, dbvars, conn>>

\* Command::from_frame(frame)? and cmd.apply(..).await?: the command is parsed,
\* applied and answered, or one of the two fails and run returns the error.
HandlerApply(h) ==
    /\ hpc[h] = "apply"
    /\ \E res \in {"ok", "parse", "io"} :
          IF res = "ok"
          THEN /\ hpc' = [hpc EXCEPT ![h] = "select"]
               /\ UNCHANGED <<hexit, permits>>
          ELSE HandlerDrop(h, "err")
    /\ answered' = IF h \in midAtTrigger THEN answered \cup {h} ELSE answered
    /\ UNCHANGED <<lpc, backoff, hshut, rpc, sig, notify_shutdown,
                   shutdown_complete_tx, trigger, lpcAtTrigger, midAtTrigger,
                   dbvars, conn>>

\* ... then the Handler's fields are dropped, `_shutdown_complete` among them.
\* Nothing reads the Handler's result or its Shutdown from here on.
HandlerDropFields(h) ==
    /\ hpc[h] = "dropping"
    /\ hpc' = [hpc EXCEPT ![h] = "gone"]
    /\ hexit' = [hexit EXCEPT ![h] = "none"]
    /\ hshut' = [hshut EXCEPT ![h] = FALSE]
    /\ UNCHANGED <<permits, lpc, backoff, rpc, sig, notify_shutdown,
                   shutdown_complete_tx, trigger, lpcAtTrigger, midAtTrigger,
                   answered, dbvars, conn>>

\* ---- server::run
\* The shutdown future (ctrl_c in bin/server.rs) becomes ready.
ShutdownSignal ==
    /\ rpc = "select"
    /\ ~sig
    /\ sig' = TRUE
    /\ UNCHANGED <<permits, lpc, backoff, hpc, hexit, hshut, rpc, notify_shutdown,
                   shutdown_complete_tx, trigger, lpcAtTrigger, midAtTrigger,
                   answered, dbvars, conn>>

\* select! completes: server.run() returned Err, or the shutdown future is
\* ready; either way the Listener::run future is dropped with the select!.
RunSelectKeepListener ==
    /\ rpc = "select"
    /\ \/ lpc = "failed" /\ trigger' = "accept_failed"
       \/ sig /\ trigger' = "shutdown"
    /\ UNCHANGED lpc
    /\ lpcAtTrigger' = lpc
    /\ midAtTrigger' = {h \in Conns : hpc[h] = "apply"}
    /\ rpc' = "drop_notify"
    /\ UNCHANGED <<permits, backoff, hpc, hexit, hshut, sig, notify_shutdown,
                   shutdown_complete_tx, answered, dbvars, conn>>
RunSelect ==
    /\ rpc = "select"
    /\ \/ lpc = "failed" /\ trigger' = "accept_failed" /\ UNCHANGED lpc
       \/ sig /\ trigger' = "shutdown" /\ lpc' = "dropped"
    /\ backoff' = 1
    /\ lpcAtTrigger' = lpc
    /\ midAtTrigger' = {h \in Conns : hpc[h] = "apply"}
    /\ rpc' = "drop_notify"
    /\ UNCHANGED <<permits, hpc, hexit, hshut, sig, notify_shutdown,
                   shutdown_complete_tx, answered, dbvars, conn>>

\* drop(notify_shutdown)
RunDropNotifyKeep ==
    /\ rpc = "drop_notify"
    /\ rpc' = "drop_tx"
    /\ UNCHANGED <<permits, lpc, backoff, hpc, hexit, hshut, sig, notify_shutdown,
                   shutdown_complete_tx, trigger, lpcAtTrigger, midAtTrigger,
                   answered, dbvars, conn>>
RunDropNotify ==
    /\ rpc = "drop_notify"
    /\ notify_shutdown' = FALSE
    /\ rpc' = "drop_tx"
    /\ UNCHANGED <<permits, lpc, backoff, hpc, hexit, hshut, sig,
                   shutdown_complete_tx, trigger, lpcAtTrigger, midAtTrigger,
                   answered, dbvars, conn>>

\* drop(shutdown_complete_tx)
RunDropTx ==
    /\ rpc = "drop_tx"
    /\ shutdown_complete_tx' = FALSE
    /\ rpc' = "recv"
    /\ UNCHANGED <<permits, lpc, backoff, hpc, hexit, hshut, sig, notify_shutdown,
                   trigger, lpcAtTrigger, midAtTrigger, answered, dbvars, conn>>

\* shutdown_complete_rx.recv() yields None: every Sender has been dropped.
DrainComplete == ~shutdown_complete_tx /\ SenderHolders = {}

\* let _ = shutdown_complete_rx.recv().await; then run returns, dropping what
\* is left of `server`: db_holder's Drop runs Db::shutdown_purge_task.
RunRecv ==
    /\ rpc = "recv"
    /\ DrainComplete
    /\ rpc' = "returned"
    /\ shutdown' = TRUE
    /\ gpc' = "dropped"
    /\ NotifyOne
    /\ UNCHANGED <<entries, expirations, next_id, tpc, twhen, cpc, now, lastSet,
                   retired>>
    /\ UNCHANGED <<permits, lpc, backoff, hpc, hexit, hshut, sig, notify_shutdown,
                   shutdown_complete_tx, trigger, lpcAtTrigger, midAtTrigger,
                   answered, conn>>

\* What a Handler task does on its own once polled, with no input awaited.
HandlerProgress(h) ==
    \/ HandlerApply(h)
    \/ HandlerDropFields(h)

RunStep == RunSelect \/ RunDropNotify \/ RunDropTx \/ RunRecv

NextServer ==
    \/ ListenerAcquire
    \/ ListenerAcceptOk
    \/ ListenerAcceptErr
    \/ ListenerBackoffDone
    \/ \E h \in Conns : HandlerRead(h)
    \/ \E h \in Conns : HandlerShutdown(h)
    \/ \E h \in Conns : HandlerApply(h)
    \/ \E h \in Conns : HandlerDropFields(h)
    \/ ShutdownSignal
    \/ RunSelect
    \/ RunDropNotify
    \/ RunDropTx
    \/ RunRecv

(***************************************************************************)
(* Commands: cmd/mod.rs, and Handler::run on one connection                *)
(***************************************************************************)
\* A request frame is an array of bulk strings: a sequence of strings.
Frames ==
    { <<"get", "k1">>, <<"GET", "k1">>, <<"get">>, <<"get", "k1", "k2">>,
      <<"set", "k1", "v1">>, <<"set", "k1", "v2", "EX", "1">>, <<"Set", "k1", "v1">>,
      <<"set", "k1", "v1", "EX", "x">>, <<"set", "k1">>,
      <<"foo">>, <<"FOO">>,
      <<"publish", "ch", "v1">>, <<"subscribe", "ch">>, <<"unsubscribe", "ch">>,
      << >> }
NoFrame == <<"">>

\* Parse::next_int on a bulk string: its decimal value, or an error.
Digits == {"0", "1", "2"}
IntOf(s) == CASE s = "0" -> 0 [] s = "1" -> 1 [] s = "2" -> 2

\* A Command value; ParseError stands for Err(..) of from_frame.
Cmd(variant, name, key, value, expire) ==
    [variant |-> variant, name |-> name, key |-> key, value |-> value,
     expire |-> expire]
ParseError == Cmd("Err", "", "", "", None)

\* Get::parse_frames, then parse.finish()
GetParseFrames(f) ==
    IF Len(f) < 2 THEN ParseError
    ELSE IF Len(f) > 2 THEN ParseError
    ELSE Cmd("Get", "get", f[2], "", None)

\* Set::parse_frames, then parse.finish()
SetParseFrames(f) ==
    IF Len(f) < 3 THEN ParseError
    ELSE IF Len(f) = 3 THEN Cmd("Set", "set", f[2], f[3], None)
    ELSE IF f[4] # "EX" THEN ParseError
    ELSE IF Len(f) < 5 THEN ParseError
    ELSE IF f[5] \notin Digits THEN ParseError
    ELSE IF Len(f) > 5 THEN ParseError
    ELSE Cmd("Set", "set", f[2], f[3], IntOf(f[5]))

\* Command::from_frame: the verb is matched as it was sent.
FromFrame(f) ==
    IF Len(f) = 0 THEN ParseError
    ELSE LET cmd_name == f[1] IN
         CASE cmd_name = "get" -> GetParseFrames(f)
           [] cmd_name = "set" -> SetParseFrames(f)
           [] OTHER -> Cmd("Unknown", cmd_name, "", "", None)

\* Reply frames.
NoReply == [kind |-> "none", text |-> ""]
Reply(kind, text) == [kind |-> kind, text |-> text]

\* Command::apply: the frame written to the connection ...
ApplyReply(cmd) ==
    CASE cmd.variant = "Get" ->
             IF Get(cmd.key) = Absent THEN Reply("Null", "")
             ELSE Reply("Bulk", Get(cmd.key))
      [] cmd.variant = "Set" -> Reply("Simple", "OK")
      [] cmd.variant = "Unknown" -> Reply("Error", cmd.name)
      [] OTHER -> NoReply
\* ... and its Result: Err("Unimplemented command.") for the other variants.
ApplyResult(cmd) ==
    IF cmd.variant \in {"Get", "Set", "Unknown"} THEN "ok" ELSE "err"

\* Handler::run returns, and the connection is closed with the Handler.
Closed(c, result) == [c EXCEPT !.pc = "closed", !.result = result]
\* The command was applied and its reply written: back to the select!.
Served(c, reply) == [c EXCEPT !.pc = "select", !.reply = reply]

\* `Command::from_frame(frame)?` fails: run returns the error.
ParseFailureReply(c) == Served(c, Reply("Error", "protocol error"))
ParseFailure(c) == Closed(c, "err")

InitCmd ==
    conn = [pc |-> "select", frame |-> NoFrame, variant |-> "none",
            prev |-> "none", reply |-> NoReply, result |-> "none"]

\* The Handler of the connection calls the Store as caller "c1".
Caller == "c1"

\* read_frame yields the next request frame of the peer.
CmdRead(frame) ==
    /\ conn.pc = "select"
    /\ FromFrame(frame).variant = "Set" => next_id < MaxId
    /\ conn' = [conn EXCEPT !.pc = "apply", !.frame = frame, !.reply = NoReply,
                            !.prev = conn.variant, !.variant = "none"]
    /\ UNCHANGED <<dbvars, srvvars>>

\* read_frame yields None: the peer closed the connection, return Ok(()).
CmdEof ==
    /\ conn.pc = "select"
    /\ conn' = Closed(conn, "ok")
    /\ UNCHANGED <<dbvars, srvvars>>

\* Command::from_frame(frame)?, then cmd.apply(..).await?
CmdApply ==
    /\ conn.pc = "apply"
    /\ LET cmd == FromFrame(conn.frame)
           c == [conn EXCEPT !.variant = cmd.variant]
       IN CASE cmd.variant = "Err" ->
                   /\ conn' = ParseFailure(c)
                   /\ UNCHANGED dbvars
            [] cmd.variant = "Set" ->
                   /\ SetLocked(Caller, cmd.key, cmd.value, cmd.expire)
                   /\ conn' = IF cpc'[Caller] = "notify"
                              THEN [c EXCEPT !.pc = "notify"]
                              ELSE Served(c, ApplyReply(cmd))
            [] ApplyResult(cmd) = "err" ->
                   /\ conn' = Closed(c, "err")
                   /\ UNCHANGED dbvars
            [] OTHER ->
                   /\ conn' = Served(c, ApplyReply(cmd))
                   /\ UNCHANGED dbvars
    /\ UNCHANGED srvvars

\* Set::apply: Db::set finishes with notify_one, then the reply is written.
CmdSetDone ==
    /\ conn.pc = "notify"
    /\ SetNotify(Caller)
    /\ conn' = Served(conn, ApplyReply(FromFrame(conn.frame)))
    /\ UNCHANGED srvvars

NextCmd ==
    \/ \E f \in Frames : CmdRead(f)
    \/ CmdEof
    \/ CmdApply
    \/ CmdSetDone
    \/ TaskCheck
    \/ TaskPurge
    \/ TaskAwait
    \/ TaskWake
    \/ Tick

(***************************************************************************)
(* Specifications                                                          *)
(***************************************************************************)
Init == InitDb /\ InitServer /\ InitCmd

SpecDb == Init /\ [][NextDb]_vars

\* Fair scheduling: the runtime keeps polling the eviction task, and a caller
\* that has released the lock goes on to its notify_one.
SpecDbLive ==
    /\ Init
    /\ [][NextDb]_vars
    /\ WF_vars(TaskStep)
    /\ \A c \in Clients : WF_vars(DbSetNotify(c))
    /\ WF_vars(ShutdownNotify)

SpecServer == Init /\ [][NextServer]_vars

SpecCmd == Init /\ [][NextCmd]_vars

\* Fair scheduling: the runtime keeps polling server::run and every Handler
\* task; a command being applied finishes; select! picks among its ready
\* branches at random, so a branch that is ready again and again is taken.
SpecServerLive ==
    /\ Init
    /\ [][NextServer]_vars
    /\ WF_vars(RunStep)
    /\ \A h \in Conns :
          /\ SF_vars(HandlerShutdown(h))
          /\ WF_vars(HandlerProgress(h))

(***************************************************************************)
(* Claims about the Store                                                  *)
(***************************************************************************)
HasTtl(k) == lastSet[k].expired_at # None
Evicted(k) == lastSet[k].id # None /\ k \notin DOMAIN entries

\* C1: no premature eviction.  A key whose last set carried a ttl is still
\* returned by get, with the value of that set, at every time strictly before
\* its expiration instant.
C1_NoPrematureEviction ==
    \A k \in Keys :
        (HasTtl(k) /\ now < lastSet[k].expired_at) => Get(k) = lastSet[k].data

\* A key with a pending ttl is still readable after a purge evicted another key.
C1_Witness ==
    \E k, j \in Keys :
        /\ HasTtl(k) /\ now < lastSet[k].expired_at /\ Get(k) = lastSet[k].data
        /\ j # k /\ HasTtl(j) /\ Evicted(j)

\* C2: eventual eviction.  Once the expiration instant of the last set on k
\* has passed, the eviction task eventually removes k (unless k is set again or
\* the store is shut down), and k then stays absent until it is set again.
C2_EventualEviction ==
    /\ \A k \in Keys : \A i \in 0..(MaxId - 1) :
          (lastSet[k].id = i /\ HasTtl(k) /\ now >= lastSet[k].expired_at /\ ~shutdown)
              ~> (Get(k) = Absent \/ lastSet[k].id # i \/ shutdown)
    /\ [][\A k \in Keys :
            (k \notin DOMAIN entries /\ lastSet'[k] = lastSet[k])
                => k \notin DOMAIN entries']_vars

\* A key whose ttl has passed has been removed, with the store still running.
C2_Witness ==
    \E k \in Keys :
        /\ HasTtl(k) /\ now >= lastSet[k].expired_at /\ lastSet[k].expired_at > lastSet[k].id
        /\ Evicted(k) /\ ~shutdown

\* C3: a key whose last set had no ttl is returned by get, with the value of
\* that set, in every later state: the eviction task never removes it.
C3_NoTtlKept ==
    \A k \in Keys :
        (lastSet[k].id # None /\ ~HasTtl(k)) => Get(k) = lastSet[k].data

\* A key without ttl survives the purge that evicted another key.
C3_Witness ==
    \E k, j \in Keys :
        /\ lastSet[k].id # None /\ ~HasTtl(k) /\ Get(k) = lastSet[k].data
        /\ j # k /\ Evicted(j) /\ lastSet[j].id > lastSet[k].id

\* C4: overwriting a key retires its old expiration record.  No record of an
\* overwritten entry stays in `expirations`, and the overwritten key keeps the
\* new value past the old expiration instant: for good when the new set had no
\* ttl, and until the new expiration instant otherwise.
C4_OverwriteRetires ==
    \A r \in retired :
        /\ <<r.when, r.id>> \notin DOMAIN expirations
        /\ (~HasTtl(r.key) \/ now < lastSet[r.key].expired_at)
               => Get(r.key) = lastSet[r.key].data

\* A key overwritten before its ttl elapsed is still there, with the new
\* value, after the old instant has passed and the task has purged again.
C4_Witness ==
    \E r \in retired :
        /\ now >= r.when
        /\ lastSet[r.key].id = r.id + 1
        /\ Get(r.key) = lastSet[r.key].data
        /\ tpc \in {"await", "wait"}
        /\ twhen = lastSet[r.key].expired_at
        /\ ~permit /\ ~notified /\ \A c \in Clients : cpc[c] = "idle"

(***************************************************************************)
(* Claims about the server                                                 *)
(***************************************************************************)
NumLive == Cardinality(LiveHandlers)

\* C5: admission bound.  At most MAX_CONNECTIONS Handlers are live; while
\* that many are live no permit is available and the Listener, as long as it
\* runs, is suspended in acquire (it is in neither accept nor a backoff sleep).
C5_AdmissionBound ==
    /\ NumLive <= MAX_CONNECTIONS
    /\ NumLive = MAX_CONNECTIONS => (permits = 0 /\ lpc \in {"acquire", "dropped"})

\* The ceiling is reached with the Listener waiting for a slot and a further
\* connection still to come.
C5_Witness ==
    /\ NumLive = MAX_CONNECTIONS
    /\ lpc = "acquire" /\ permits = 0
    /\ NextConn \in Conns
    /\ rpc = "select"

\* The slot the Listener had taken when it stopped: it failed in accept, or
\* its future was dropped in accept or in a backoff sleep.
LostSlot ==
    IF lpc = "failed" \/ (lpc = "dropped" /\ lpcAtTrigger \in {"accept", "backoff", "failed"})
    THEN 1 ELSE 0

\* C6: slot release exactly once.  Available permits, live Handlers and the
\* slot the Listener holds never exceed MAX_CONNECTIONS and add up to it as
\* long as the Listener runs; afterwards only the slot the Listener itself
\* held is missing.  So every Handler that ended, on any exit path, gave back
\* exactly one permit.
C6_SlotConservation ==
    /\ permits + NumLive + ListenerHolds <= MAX_CONNECTIONS
    /\ ListenerRunning => permits + NumLive + ListenerHolds = MAX_CONNECTIONS
    /\ permits + NumLive + ListenerHolds + LostSlot = MAX_CONNECTIONS

\* More connections than the ceiling have been admitted: a Handler ended and
\* its slot went to a later connection.
C6_Witness ==
    /\ Cardinality(Spawned) > MAX_CONNECTIONS
    /\ NumLive = MAX_CONNECTIONS
    /\ \E h \in Conns : hpc[h] = "gone"

\* C7: shutdown drain (safety).  When server::run has returned, its own
\* sender and the broadcast sender are dropped, no spawned Handler is left
\* (none holds a sender clone), and every Handler that was mid-command when
\* the select! completed has finished that command.
C7_DrainBeforeReturn ==
    rpc = "returned" =>
        /\ ~shutdown_complete_tx /\ ~notify_shutdown
        /\ \A h \in Conns : hpc[h] \in {"none", "gone"}
        /\ midAtTrigger \subseteq answered

\* run has returned after a shutdown that found a Handler mid-command.
C7_Witness ==
    /\ rpc = "returned"
    /\ trigger = "shutdown"
    /\ midAtTrigger # {}
    /\ Cardinality(Spawned) >= 2

\* C8: shutdown drain (liveness).  Once the shutdown future is ready or the
\* accept loop has failed, eventually every Handler that was spawned has
\* exited and been dropped and server::run has returned.
C8_DrainCompletes ==
    (sig \/ lpc = "failed")
        ~> (rpc = "returned" /\ \A h \in Conns : hpc[h] \in {"none", "gone"})

\* A Handler that was mid-command at the shutdown has finished the command
\* and then left through the shutdown branch.
C8_Witness ==
    \E h \in midAtTrigger :
        /\ h \in answered
        /\ hshut[h] /\ hpc[h] = "dropping"

\* C9: once run's select! has completed through the shutdown branch, no
\* connection is accepted, no Handler is spawned and the Listener takes no
\* further step.
C9_NoAcceptAfterShutdown ==
    [][trigger = "shutdown" =>
          (Spawned' = Spawned /\ lpc' = lpc /\ permits' >= permits)]_vars

\* Shutdown found the Listener waiting in accept with a slot taken; run has
\* returned and the connection that could have come was never accepted.
C9_Witness ==
    /\ trigger = "shutdown"
    /\ lpcAtTrigger = "accept"
    /\ NextConn \in Conns
    /\ rpc = "returned"

\* C10 as stated: once the broadcast sender has been dropped, no Handler
\* takes a new frame from its connection.
C10_NoReadAfterSignal ==
    [][~notify_shutdown =>
          \A h \in Conns : ~(hpc[h] = "select" /\ hpc'[h] = "apply")]_vars

\* C10, amended: a Handler whose select! took the shutdown branch has
\* returned, with Ok, and reads no frame; a Handler that was mid-command when
\* the select! of run completed is still applying it or has finished it.
C10_HandlerOnShutdown ==
    /\ \A h \in Conns : hshut[h] => (hpc[h] = "dropping" /\ hexit[h] = "ok")
    /\ \A h \in midAtTrigger : hpc[h] = "apply" \/ h \in answered

\* A Handler has left through the shutdown branch while another one, caught
\* mid-command, is still applying its command.
C10_Witness ==
    /\ \E h \in Conns : hshut[h] /\ hpc[h] = "dropping"
    /\ \E h \in midAtTrigger : hpc[h] = "apply"

(***************************************************************************)
(* Claims about commands                                                   *)
(***************************************************************************)
\* Lower-casing of a verb, as String::to_lowercase does it.
ToLower(w) ==
    CASE w = "GET" -> "get"
      [] w = "Set" -> "set"
      [] w = "FOO" -> "foo"
      [] OTHER -> w
LowerVerb(f) == IF Len(f) = 0 THEN f ELSE [f EXCEPT ![1] = ToLower(f[1])]

\* The verbs of the closed command set.
Recognized == {"get", "set", "publish", "subscribe", "unsubscribe"}
\* from_frame and apply have run on conn.frame.
Handled == conn.variant # "none"

\* C11: a request whose verb is not a recognized command becomes the Unknown
\* variant, is answered by an Error reply naming the verb in lower case, and
\* leaves the Handler in its loop; a valid GET or SET that follows on the
\* same connection gets its normal reply.
C11_UnknownCommand ==
    /\ (Handled /\ Len(conn.frame) > 0 /\ ToLower(conn.frame[1]) \notin Recognized)
          => /\ conn.variant = "Unknown"
             /\ conn.reply = Reply("Error", ToLower(conn.frame[1]))
             /\ conn.result # "err"
    /\ (conn.prev = "Unknown" /\ conn.variant \in {"Get", "Set"} /\ conn.pc = "select")
          => conn.reply.kind \in {"Bulk", "Null", "Simple"}

\* C12: from_frame produces, for a verb in upper or mixed case, the command it
\* produces for the lower-case verb with the same arguments.
C12_CaseInsensitive ==
    Handled =>
        LET a == FromFrame(conn.frame)
            b == FromFrame(LowerVerb(conn.frame))
        IN /\ conn.variant = b.variant
           /\ a.key = b.key /\ a.value = b.value /\ a.expire = b.expire

\* GET and SET requests with a missing, a trailing and a malformed argument.
MalformedFrames ==
    { <<"get">>, <<"set", "k1">>, <<"get", "k1", "k2">>,
      <<"set", "k1", "v1", "EX", "x">> }

\* C13 as stated: a GET or SET with missing, malformed or trailing arguments
\* is answered with an Error frame and the connection stays open.
C13_ProtocolErrorKeepsOpen ==
    (Handled /\ conn.frame \in MalformedFrames)
        => (conn.reply.kind = "Error" /\ conn.result # "err")

\* C13, amended: such a request makes from_frame fail, and Handler::run
\* returns that error: no reply frame is written for the request and the
\* connection is closed with the Handler.
C13_ProtocolErrorAborts ==
    (Handled /\ conn.frame \in MalformedFrames)
        => /\ conn.variant = "Err"
           /\ conn.pc = "closed" /\ conn.result = "err"
           /\ conn.reply = NoReply

\* A connection that had a SET served is closed by a GET with a trailing
\* argument.
C13_Witness ==
    /\ Handled /\ conn.frame = <<"get", "k1", "k2">>
    /\ conn.prev = "Set"
    /\ conn.pc = "closed"

\* The variant of the closed command set that belongs to a pub/sub verb.
PubSubVariant(w) ==
    CASE w = "publish" -> "Publish"
      [] w = "subscribe" -> "Subscribe"
      [] w = "unsubscribe" -> "Unsubscribe"
      [] OTHER -> "none"

\* C16: a PUBLISH, SUBSCRIBE or UNSUBSCRIBE request becomes its own variant,
\* not Unknown, and executing it reports "unimplemented": an error, no reply
\* that says success.
C16_PubSubAccepted ==
    (Handled /\ Len(conn.frame) > 0 /\ PubSubVariant(conn.frame[1]) # "none")
        => /\ conn.variant = PubSubVariant(conn.frame[1])
           /\ conn.result = "err"
           /\ conn.reply = NoReply

(***************************************************************************)
(* More claims about the server                                            *)
(***************************************************************************)
\* The sleeps of one call of Listener::accept.
BackoffSleeps == {1, 2, 4, 8, 16, 32}

\* C14: accept retry.  Within one call of accept the sleeps after failed
\* attempts are 1, 2, 4, 8, 16, 32 seconds: a sleep lasts `backoff` seconds,
\* backoff starts at 1 in every call and doubles after each sleep.  A
\* successful attempt hands over the socket at once (the Handler is spawned);
\* accept gives up only with backoff at 64, after the 32 second sleep.  Once
\* it gave up the Listener accepts nothing more, and the server goes into
\* shutdown: the broadcast sender is dropped.
C14_AcceptRetry ==
    /\ [](lpc = "backoff" => backoff \in BackoffSleeps)
    /\ [][/\ (lpc = "acquire" /\ lpc' = "accept") => backoff' = 1
          /\ (lpc = "accept" /\ lpc' = "backoff") => backoff' = backoff
          /\ (lpc = "backoff" /\ lpc' = "accept") => backoff' = 2 * backoff
          /\ (lpc = "accept" /\ lpc' = "acquire") => Spawned' # Spawned
          /\ (lpc = "accept" /\ lpc' = "failed") => backoff = 2 * BackoffLimit
          /\ lpc = "failed" => (lpc' \in {"failed", "dropped"} /\ Spawned' = Spawned)
       ]_vars
    /\ (lpc = "failed") ~> ~notify_shutdown

\* A connection was accepted, a later call of accept went through all its
\* sleeps and gave up, and the server has shut down for it.
C14_Witness ==
    /\ lpc = "failed"
    /\ trigger = "accept_failed"
    /\ Spawned # {}
    /\ rpc = "returned"

(***************************************************************************)
(* More claims about the Store                                             *)
(***************************************************************************)
\* C15: eviction task termination.  The task exits only in a step that sees
\* the shutdown flag set, and once the guard is dropped (flag set, wake-up
\* issued) the task eventually exits, wherever it was.
C15_TaskTermination ==
    /\ [][(tpc # "done" /\ tpc' = "done") => shutdown]_vars
    /\ (gpc = "dropped") ~> (tpc = "done")

\* The guard is dropped while the task sleeps with no deadline and a key set
\* earlier is stored: the wake-up of the shutdown reached its waiter.
C15_Witness ==
    /\ gpc = "dropped" /\ shutdown
    /\ tpc = "wait" /\ twhen = None /\ notified
    /\ next_id > 0

\* The records of `expirations` that point at key k.
RecordsOf(k) == {r \in DOMAIN expirations : expirations[r] = k}

\* C17: cross-index invariant.  An entry with an expiration has exactly one
\* record, (expired_at, id) -> its key; every record belongs to a stored
\* entry with that key, id and expiration; an entry without expiration has
\* no record.
C17_CrossIndex ==
    /\ \A k \in DOMAIN entries :
          IF entries[k].expired_at # None
          THEN RecordsOf(k) = {<<entries[k].expired_at, entries[k].id>>}
          ELSE RecordsOf(k) = {}
    /\ \A r \in DOMAIN expirations :
          /\ expirations[r] \in DOMAIN entries
          /\ entries[expirations[r]].id = r[2]
          /\ entries[expirations[r]].expired_at = r[1]

\* Two keys are stored with one and the same expiration instant, each with
\* its own record, after the task has purged.
C17_Witness ==
    /\ \E k, j \in DOMAIN entries :
          /\ k # j
          /\ entries[k].expired_at # None
          /\ entries[k].expired_at = entries[j].expired_at
    /\ Cardinality(DOMAIN expirations) = 2
    /\ tpc \in {"await", "wait"}

\* A wake-up is on its way to the task: a stored permit, a notified waiter,
\* or a Db::set that has released the lock and not yet called notify_one.
WakePending == permit \/ notified \/ \E c \in Clients : cpc[c] = "notify"

\* C18: no lost wake-up.  From the purge that computed its deadline until
\* the wait returns, with the store not shut down, the task either has a
\* wake-up pending or no record expires before the deadline it waits for
\* (no record at all when it waits with no deadline).
C18_NoLostWakeup ==
    (tpc \in {"await", "wait"} /\ ~shutdown)
        => \/ WakePending
           \/ IF twhen = None
              THEN DOMAIN expirations = {}
              ELSE \A r \in DOMAIN expirations : r[1] >= twhen

\* A set with a ttl landed after the purge found nothing to wait for and
\* before the task started to wait: its wake-up is stored as a permit.
C18_Witness ==
    /\ tpc = "await" /\ twhen = None /\ ~shutdown
    /\ DOMAIN expirations # {}
    /\ permit /\ \A c \in Clients : cpc[c] = "idle"

\* The step is the locked part of a Db::set; SetKey is the key it wrote.
IsSetStep == next_id' = next_id + 1
SetKey == CHOOSE k \in Keys : lastSet'[k].id = next_id
\* The step is the notify_one of a caller / of the guard's drop.
IsCallerNotify == \E c \in Clients : cpc[c] = "notify" /\ cpc'[c] = "idle"
IsGuardNotify == gpc = "notify" /\ gpc' = "dropped"
\* The step hands a wake-up to the task's Notify.
IssuesWake == (permit' /\ ~permit /\ ~notified) \/ (notified' /\ ~notified)

\* C19: conditional wake.  A Db::set goes on to notify_one exactly when it
\* was given a ttl and its expiration instant is strictly earlier than every
\* expiration tracked before it (none tracked included).  The step under the
\* lock issues no wake-up itself; its notify_one comes in a later step, with
\* the lock released, and leaves a wake-up with the task's Notify; wake-ups
\* come only from such a notify_one or from the guard's drop.
C19_ConditionalWake ==
    [][/\ IsSetStep =>
            LET when == lastSet'[SetKey].expired_at IN
            /\ (\E c \in Clients : cpc[c] = "idle" /\ cpc'[c] = "notify")
                  <=> (when # None /\ \A r \in DOMAIN expirations : when < r[1])
            /\ permit' = permit /\ notified' = notified
       /\ IsCallerNotify =>
            /\ permit' \/ notified'
            /\ entries' = entries /\ expirations' = expirations
       /\ IssuesWake => (IsCallerNotify \/ IsGuardNotify)
      ]_vars

\* A set with a ttl equal to or later than a tracked expiration has
\* returned, and the task it did not wake is still waiting for the earlier one.
C19_Witness ==
    \E k, j \in DOMAIN entries :
        /\ k # j
        /\ entries[k].id = next_id - 1
        /\ entries[k].expired_at # None /\ entries[j].expired_at # None
        /\ entries[k].expired_at >= entries[j].expired_at
        /\ tpc = "wait" /\ twhen = entries[j].expired_at
        /\ ~permit /\ ~notified /\ \A c \in Clients : cpc[c] = "idle"

\* The step is the eviction task's purge_expired_keys.
IsPurgeStep == tpc = "purge" /\ tpc' = "await"

\* C20: only the eviction task evicts.  Db::get returns what is stored, with
\* no look at the expiration: as long as no purge has removed the key it
\* returns the value last set, also after the expiration instant.  A Db::set
\* on k adds one to next_id and leaves every other key's entry and records,
\* and the shutdown flag, as they were.  A key leaves `entries` only in a
\* purge step, and only with its expiration instant reached.
C20_OnlyTaskEvicts ==
    /\ [](\A k \in DOMAIN entries : Get(k) = lastSet[k].data)
    /\ [][/\ IsSetStep =>
               /\ SetKey \in DOMAIN entries'
               /\ shutdown' = shutdown
               /\ \A j \in Keys \ {SetKey} :
                     /\ (j \in DOMAIN entries) = (j \in DOMAIN entries')
                     /\ j \in DOMAIN entries => entries'[j] = entries[j]
                     /\ RecordsOf(j)' = RecordsOf(j)
          /\ \A k \in DOMAIN entries :
                k \notin DOMAIN entries' =>
                    /\ IsPurgeStep
                    /\ entries[k].expired_at # None
                    /\ entries[k].expired_at <= now
         ]_vars

\* A key is still stored, and returned by get, after its expiration instant:
\* the task has not purged since.
C20_Witness ==
    \E k \in DOMAIN entries :
        /\ entries[k].expired_at # None
        /\ entries[k].expired_at < now
        /\ Get(k) = lastSet[k].data
        /\ tpc = "wait"

====
